---- MODULE Spec2Model ----
(***************************************************************************)
(* A model of go/base/context.go: the MigrationContext shared by the       *)
(* concurrently running workers of a migration.  Every exported operation  *)
(* is a sequence of steps of the calling worker; a step is one access to   *)
(* the shared record, and sync.Mutex is a variable naming its holder.      *)
(* What a call does before its Lock touches nothing shared, so outside     *)
(* SetThrottled / IsThrottled the call and its Lock are a single step;     *)
(* SpecLocks, which is about calls that wait, adds the call as a step.     *)
(* Each group of operations has its own specification over the same state. *)
(***************************************************************************)
EXTENDS Integers, Sequences, FiniteSets, TLC

\* ---------------------------------------------------------------- bounds
NumWorkers == 2
MaxTime == 4
MaxArg == 12

Workers == 1..NumWorkers
NoWorker == 0

VARIABLES
    pc,                         \* pc[w]: the statement worker w is at ("idle" between calls)
    local,                      \* local[w]: arguments and local variables of w's call
    last,                       \* the call that returned most recently, with its results
    throttleMutex,              \* holder of this.throttleMutex, NoWorker when free
    isThrottled,
    throttleReason,
    lastSet,                    \* arguments of the SetThrottled call that completed last
    CutOverLockTimeoutSeconds,
    defaultNumRetries,
    maxLoad,                    \* reference to the LoadMap stored in this.maxLoad
    criticalLoad,               \* reference to the LoadMap stored in this.criticalLoad
    heap,                       \* heap[r]: content of the LoadMap object r
    held,                       \* held[w]: the LoadMap a getter returned to w's caller, Nil when none
    committed,                  \* content stored by the last successful ReadMaxLoad / ReadCriticalLoad
    configMutex,                \* holder of this.configMutex
    config,                     \* this.config.Client
    CliUser,
    CliPassword,
    InspectorConnectionConfig,
    applied,                    \* result of the first ApplyCredentials since its inputs last changed, and
                                \* whether one or several calls were made since
    now,                        \* the wall clock read by time.Now()
    RowCopyStartTime,
    RowCopyEndTime,
    marks,                      \* the MarkRowCopy... calls made so far: "none", "start" (one start
                                \* mark), "start,end" (one start mark, then one end mark), "other"
    elapsed,                    \* the ElapsedRowCopyTime result returned last, and the marks then
    ChunkSize,
    MaxLagMillisecondsThrottleThreshold,
    OriginalTableName,
    MigrateTableName,
    Migrate,
    TestOnReplica,
    MigrateOnReplica,
    MigrationRangeMinValues,    \* a *sql.ColumnValues: Nil or "set"
    MigrationRangeMaxValues,
    MigrationIterationRangeMinValues,
    MigrationIterationRangeMaxValues,
    replicationLagQuery,
    throttleQuery,
    niceRatio,
    throttleControlReplicaKeys,
    pointOfInterestTimeMutex,   \* holder of this.pointOfInterestTimeMutex
    pointOfInterestTime,
    Iteration

ctlVars == <<pc, local, last>>
throttleVars == <<isThrottled, throttleReason, lastSet>>
settingVars == <<CutOverLockTimeoutSeconds, defaultNumRetries>>
loadVars == <<maxLoad, criticalLoad, heap, held, committed>>
configVars == <<configMutex, config, CliUser, CliPassword, InspectorConnectionConfig, applied>>
timeVars == <<now, RowCopyStartTime, RowCopyEndTime, marks, elapsed>>
atomicVars == <<ChunkSize, MaxLagMillisecondsThrottleThreshold>>
nameVars == <<OriginalTableName, MigrateTableName, Migrate, TestOnReplica, MigrateOnReplica>>
rangeVars == <<MigrationRangeMinValues, MigrationRangeMaxValues,
               MigrationIterationRangeMinValues, MigrationIterationRangeMaxValues>>
queryVars == <<replicationLagQuery, throttleQuery, niceRatio, throttleControlReplicaKeys>>
poiVars == <<pointOfInterestTimeMutex, pointOfInterestTime, Iteration>>
fieldVars == <<atomicVars, nameVars, rangeVars, queryVars, poiVars>>

vars == <<pc, local, last, throttleMutex, isThrottled, throttleReason, lastSet,
          CutOverLockTimeoutSeconds, defaultNumRetries, maxLoad, criticalLoad, heap, held, committed,
          configMutex, config, CliUser, CliPassword, InspectorConnectionConfig, applied,
          now, RowCopyStartTime, RowCopyEndTime, marks, elapsed,
          ChunkSize, MaxLagMillisecondsThrottleThreshold,
          OriginalTableName, MigrateTableName, Migrate, TestOnReplica, MigrateOnReplica,
          MigrationRangeMinValues, MigrationRangeMaxValues,
          MigrationIterationRangeMinValues, MigrationIterationRangeMaxValues,
          replicationLagQuery, throttleQuery, niceRatio, throttleControlReplicaKeys,
          pointOfInterestTimeMutex, pointOfInterestTime, Iteration>>

NoLocal == [op |-> "none"]
Reasons == {"", "lag", "load"}

\* ------------------------------------------------------------ sync.Mutex
MutexLock(mutex, w) == mutex = NoWorker
MutexUnlock(mutex, w) == NoWorker

\* ---------------------------------------------------------- SetThrottled
SetThrottledCall(w) ==
    /\ pc[w] = "idle"
    /\ \E throttle \in BOOLEAN, reason \in Reasons :
          local' = [local EXCEPT ![w] = [op |-> "SetThrottled", throttle |-> throttle, reason |-> reason]]
    /\ pc' = [pc EXCEPT ![w] = "SetThrottled:lock"]
    /\ UNCHANGED <<fieldVars, last, throttleMutex, isThrottled, throttleReason, lastSet, settingVars, loadVars, configVars, timeVars>>

SetThrottledLock(w) ==
    /\ pc[w] = "SetThrottled:lock"
    /\ MutexLock(throttleMutex, w)
    /\ throttleMutex' = w
    /\ pc' = [pc EXCEPT ![w] = "SetThrottled:flag"]
    /\ UNCHANGED <<fieldVars, local, last, isThrottled, throttleReason, lastSet, settingVars, loadVars, configVars, timeVars>>

SetThrottledFlag(w) ==
    /\ pc[w] = "SetThrottled:flag"
    /\ isThrottled' = local[w].throttle
    /\ pc' = [pc EXCEPT ![w] = "SetThrottled:reason"]
    /\ UNCHANGED <<fieldVars, local, last, throttleMutex, throttleReason, lastSet, settingVars, loadVars, configVars, timeVars>>

SetThrottledReason(w) ==
    /\ pc[w] = "SetThrottled:reason"
    /\ throttleReason' = local[w].reason
    /\ pc' = [pc EXCEPT ![w] = "SetThrottled:unlock"]
    /\ UNCHANGED <<fieldVars, local, last, throttleMutex, isThrottled, lastSet, settingVars, loadVars, configVars, timeVars>>

SetThrottledUnlock(w) ==
    /\ pc[w] = "SetThrottled:unlock"
    /\ throttleMutex' = MutexUnlock(throttleMutex, w)
    /\ lastSet' = <<local[w].throttle, local[w].reason>>
    /\ last' = [op |-> "SetThrottled", throttle |-> local[w].throttle, reason |-> local[w].reason]
    /\ pc' = [pc EXCEPT ![w] = "idle"]
    /\ local' = [local EXCEPT ![w] = NoLocal]
    /\ UNCHANGED <<fieldVars, isThrottled, throttleReason, settingVars, loadVars, configVars, timeVars>>

SetThrottled(w) ==
    \/ SetThrottledCall(w)
    \/ SetThrottledLock(w)
    \/ SetThrottledFlag(w)
    \/ SetThrottledReason(w)
    \/ SetThrottledUnlock(w)

\* ----------------------------------------------------------- IsThrottled
IsThrottledCall(w) ==
    /\ pc[w] = "idle"
    /\ local' = [local EXCEPT ![w] = [op |-> "IsThrottled"]]
    /\ pc' = [pc EXCEPT ![w] = "IsThrottled:lock"]
    /\ UNCHANGED <<fieldVars, last, throttleMutex, isThrottled, throttleReason, lastSet, settingVars, loadVars, configVars, timeVars>>

IsThrottledLockUnguarded(w) ==
    /\ pc[w] = "IsThrottled:lock"
    /\ pc' = [pc EXCEPT ![w] = "IsThrottled:flag"]
    /\ UNCHANGED <<fieldVars, local, last, throttleMutex, isThrottled, throttleReason, lastSet, settingVars, loadVars, configVars, timeVars>>

IsThrottledLock(w) ==
    /\ pc[w] = "IsThrottled:lock"
    /\ MutexLock(throttleMutex, w)
    /\ throttleMutex' = w
    /\ pc' = [pc EXCEPT ![w] = "IsThrottled:flag"]
    /\ UNCHANGED <<fieldVars, local, last, isThrottled, throttleReason, lastSet, settingVars, loadVars, configVars, timeVars>>

IsThrottledFlag(w) ==
    /\ pc[w] = "IsThrottled:flag"
    /\ local' = [local EXCEPT ![w] = [op |-> "IsThrottled", flag |-> isThrottled]]
    /\ pc' = [pc EXCEPT ![w] = "IsThrottled:reason"]
    /\ UNCHANGED <<fieldVars, last, throttleMutex, isThrottled, throttleReason, lastSet, settingVars, loadVars, configVars, timeVars>>

IsThrottledReason(w) ==
    /\ pc[w] = "IsThrottled:reason"
    /\ local' = [local EXCEPT ![w] = [op |-> "IsThrottled", flag |-> local[w].flag, reason |-> throttleReason]]
    /\ pc' = [pc EXCEPT ![w] = "IsThrottled:unlock"]
    /\ UNCHANGED <<fieldVars, last, throttleMutex, isThrottled, throttleReason, lastSet, settingVars, loadVars, configVars, timeVars>>

IsThrottledUnlock(w) ==
    /\ pc[w] = "IsThrottled:unlock"
    /\ throttleMutex' = MutexUnlock(throttleMutex, w)
    /\ last' = [op |-> "IsThrottled", flag |-> local[w].flag, reason |-> local[w].reason]
    /\ pc' = [pc EXCEPT ![w] = "idle"]
    /\ local' = [local EXCEPT ![w] = NoLocal]
    /\ UNCHANGED <<fieldVars, isThrottled, throttleReason, lastSet, settingVars, loadVars, configVars, timeVars>>

IsThrottled(w) ==
    \/ IsThrottledCall(w)
    \/ IsThrottledLock(w)
    \/ IsThrottledFlag(w)
    \/ IsThrottledReason(w)
    \/ IsThrottledUnlock(w)


\* ------------------------------------------ SetCutOverLockTimeoutSeconds
\* int64 arguments: some below 1, 1..10, and some above 10
ArgValues == (-1)..MaxArg

\* the function takes no mutex: it is a single store to the field
SetCutOverLockTimeoutSecondsOffByOne(w) ==
    /\ pc[w] = "idle"
    /\ \E timeoutSeconds \in ArgValues :
          IF timeoutSeconds < 1 \/ timeoutSeconds >= 10
          THEN /\ last' = [op |-> "SetCutOverLockTimeoutSeconds", timeoutSeconds |-> timeoutSeconds, err |-> TRUE]
               /\ UNCHANGED CutOverLockTimeoutSeconds
          ELSE /\ CutOverLockTimeoutSeconds' = timeoutSeconds
               /\ last' = [op |-> "SetCutOverLockTimeoutSeconds", timeoutSeconds |-> timeoutSeconds, err |-> FALSE]
    /\ UNCHANGED <<fieldVars, pc, local, throttleMutex, throttleVars, defaultNumRetries, loadVars, configVars, timeVars>>

SetCutOverLockTimeoutSeconds(w) ==
    /\ pc[w] = "idle"
    /\ \E timeoutSeconds \in ArgValues :
          IF timeoutSeconds < 1
          THEN /\ last' = [op |-> "SetCutOverLockTimeoutSeconds", timeoutSeconds |-> timeoutSeconds, err |-> TRUE]
               /\ UNCHANGED CutOverLockTimeoutSeconds
          ELSE IF timeoutSeconds > 10
          THEN /\ last' = [op |-> "SetCutOverLockTimeoutSeconds", timeoutSeconds |-> timeoutSeconds, err |-> TRUE]
               /\ UNCHANGED CutOverLockTimeoutSeconds
          ELSE /\ CutOverLockTimeoutSeconds' = timeoutSeconds
               /\ last' = [op |-> "SetCutOverLockTimeoutSeconds", timeoutSeconds |-> timeoutSeconds, err |-> FALSE]
    /\ UNCHANGED <<fieldVars, pc, local, throttleMutex, throttleVars, defaultNumRetries, loadVars, configVars, timeVars>>

\* -------------------------------------------------- SetDefaultNumRetries
\* The arguments tried: both sides of the one comparison, retries > 0.
RetriesValues == {-1, 0, 1, 2}

\* the call, taking the mutex on entry
SetDefaultNumRetriesLock(w) ==
    /\ pc[w] = "idle"
    /\ MutexLock(throttleMutex, w)
    /\ throttleMutex' = w
    /\ \E retries \in RetriesValues :
          local' = [local EXCEPT ![w] = [op |-> "SetDefaultNumRetries", retries |-> retries,
                                         before |-> defaultNumRetries]]
    /\ pc' = [pc EXCEPT ![w] = "SetDefaultNumRetries:store"]
    /\ UNCHANGED <<fieldVars, last, throttleVars, settingVars, loadVars, configVars, timeVars>>

\* a variant that stores whatever it is given
SetDefaultNumRetriesStoreUnchecked(w) ==
    /\ pc[w] = "SetDefaultNumRetries:store"
    /\ defaultNumRetries' = local[w].retries
    /\ pc' = [pc EXCEPT ![w] = "SetDefaultNumRetries:unlock"]
    /\ UNCHANGED <<fieldVars, local, last, throttleMutex, throttleVars, CutOverLockTimeoutSeconds, loadVars, configVars, timeVars>>

SetDefaultNumRetriesStore(w) ==
    /\ pc[w] = "SetDefaultNumRetries:store"
    /\ defaultNumRetries' = (IF local[w].retries > 0 THEN local[w].retries ELSE defaultNumRetries)
    /\ pc' = [pc EXCEPT ![w] = "SetDefaultNumRetries:unlock"]
    /\ UNCHANGED <<fieldVars, local, last, throttleMutex, throttleVars, CutOverLockTimeoutSeconds, loadVars, configVars, timeVars>>

\* the function has no result: the caller gets no value back ("none")
SetDefaultNumRetriesUnlock(w) ==
    /\ pc[w] = "SetDefaultNumRetries:unlock"
    /\ throttleMutex' = MutexUnlock(throttleMutex, w)
    /\ last' = [op |-> "SetDefaultNumRetries", retries |-> local[w].retries, result |-> "none"]
    /\ pc' = [pc EXCEPT ![w] = "idle"]
    /\ local' = [local EXCEPT ![w] = NoLocal]
    /\ UNCHANGED <<fieldVars, throttleVars, settingVars, loadVars, configVars, timeVars>>

SetDefaultNumRetries(w) ==
    \/ SetDefaultNumRetriesLock(w)
    \/ SetDefaultNumRetriesStore(w)
    \/ SetDefaultNumRetriesUnlock(w)

\* ------------------------------------------------------------ MaxRetries
MaxRetriesLock(w) ==
    /\ pc[w] = "idle"
    /\ MutexLock(throttleMutex, w)
    /\ throttleMutex' = w
    /\ local' = [local EXCEPT ![w] = [op |-> "MaxRetries"]]
    /\ pc' = [pc EXCEPT ![w] = "MaxRetries:read"]
    /\ UNCHANGED <<fieldVars, last, throttleVars, settingVars, loadVars, configVars, timeVars>>

MaxRetriesRead(w) ==
    /\ pc[w] = "MaxRetries:read"
    /\ local' = [local EXCEPT ![w] = [op |-> "MaxRetries", retries |-> defaultNumRetries]]
    /\ pc' = [pc EXCEPT ![w] = "MaxRetries:unlock"]
    /\ UNCHANGED <<fieldVars, last, throttleMutex, throttleVars, settingVars, loadVars, configVars, timeVars>>

MaxRetriesUnlock(w) ==
    /\ pc[w] = "MaxRetries:unlock"
    /\ throttleMutex' = MutexUnlock(throttleMutex, w)
    /\ last' = [op |-> "MaxRetries", result |-> local[w].retries]
    /\ pc' = [pc EXCEPT ![w] = "idle"]
    /\ local' = [local EXCEPT ![w] = NoLocal]
    /\ UNCHANGED <<fieldVars, throttleVars, settingVars, loadVars, configVars, timeVars>>

MaxRetries(w) ==
    \/ MaxRetriesLock(w)
    \/ MaxRetriesRead(w)
    \/ MaxRetriesUnlock(w)


\* ------------------------------------------------------------- LoadMap
\* A load list is a string, modelled as a sequence of characters.
\* The lists tried: the empty list, one and two conditions, a name given twice,
\* and the ways of being malformed (no "=", no name, no value, a value that is
\* no number, two "=", an empty condition), alone and after a good condition.
LoadLists ==
    { <<>>,
      <<"a", "=", "1">>,
      <<"a", "=", "1", ",", "b", "=", "2">>,
      <<"a", "=", "1", ",", "a", "=", "1", "2">>,
      <<"a">>,
      <<"=", "1">>,
      <<"a", "=">>,
      <<"a", "=", "b">>,
      <<"a", "=", "1", "b">>,
      <<"a", "=", "1", "=", "2">>,
      <<",">>,
      <<"a", "=", "1", ",">>,
      <<",", "a", "=", "1">>,
      <<"a", "=", "1", ",", "b">>,
      <<"a", "=", "1", ",", "b", "=", "x">>,
      <<"a", "=", "1", ",", ",", "b", "=", "2">> }

EmptyMap == [k \in {} |-> 0]
Put(m, k, v) == [x \in DOMAIN m \cup {k} |-> IF x = k THEN v ELSE m[x]]
Remove(m, k) == [x \in DOMAIN m \ {k} |-> m[x]]

IndexOf(s, c) ==
    IF \E i \in 1..Len(s) : s[i] = c
    THEN CHOOSE i \in 1..Len(s) : s[i] = c /\ \A j \in 1..(i - 1) : s[j] # c
    ELSE 0

RECURSIVE Split(_, _)
Split(s, c) ==
    LET i == IndexOf(s, c)
    IN  IF i = 0 THEN <<s>>
        ELSE <<SubSeq(s, 1, i - 1)>> \o Split(SubSeq(s, i + 1, Len(s)), c)

Digits == <<"0", "1", "2", "3", "4", "5", "6", "7", "8", "9">>
IsDigit(c) == \E i \in 1..Len(Digits) : Digits[i] = c
DigitValue(c) == (CHOOSE i \in 1..Len(Digits) : Digits[i] = c) - 1

RECURSIVE Decimal(_)
Decimal(t) ==
    IF t = <<>> THEN 0
    ELSE Decimal(SubSeq(t, 1, Len(t) - 1)) * 10 + DigitValue(t[Len(t)])

IsNumeric(t) == Len(t) > 0 /\ \A i \in 1..Len(t) : IsDigit(t[i])

RECURSIVE ParseConditions(_, _, _)
ParseConditions(loadConditions, i, result) ==
    IF i > Len(loadConditions) THEN [err |-> FALSE, loadMap |-> result]
    ELSE LET loadTokens == Split(loadConditions[i], "=")
         IN  IF Len(loadTokens) # 2 THEN [err |-> TRUE, loadMap |-> EmptyMap]
             ELSE IF loadTokens[1] = <<>> THEN [err |-> TRUE, loadMap |-> EmptyMap]
             ELSE IF ~IsNumeric(loadTokens[2]) THEN [err |-> TRUE, loadMap |-> EmptyMap]
             ELSE ParseConditions(loadConditions, i + 1,
                                  Put(result, loadTokens[1], Decimal(loadTokens[2])))

ParseLoadMap(loadList) ==
    IF loadList = <<>> THEN [err |-> FALSE, loadMap |-> EmptyMap]
    ELSE ParseConditions(Split(loadList, ","), 1, EmptyMap)

\* what the parser can hand to ReadMaxLoad / ReadCriticalLoad over all load lists
ParseResults == {ParseLoadMap(loadList) : loadList \in LoadLists}

\* LoadMap objects live on the heap; a field or a variable holds a reference.
\* held[w] is worker w's LoadMap variable: the local loadMap of its ReadMaxLoad /
\* ReadCriticalLoad call, then the map a getter returned to it.
Nil == 0
Refs == 1..(NumWorkers + 2)

Roots(m, c, hd) == <<m, c>> \o [i \in 1..NumWorkers |-> hd[i]]

\* the first root that refers to r
Canon(roots, r) ==
    IF r = Nil THEN Nil
    ELSE CHOOSE i \in 1..Len(roots) : roots[i] = r /\ \A j \in 1..(i - 1) : roots[j] # r

\* The next heap, given the next references m, c, hd and contents h: an object
\* nothing refers to is collected, and since the program never compares or
\* prints addresses, an object is numbered by the first root that refers to it.
Relocate(m, c, hd, h) ==
    LET roots == Roots(m, c, hd)
    IN  /\ maxLoad' = Canon(roots, m)
        /\ criticalLoad' = Canon(roots, c)
        /\ held' = [w \in Workers |-> Canon(roots, hd[w])]
        /\ heap' = [n \in Refs |->
                      IF roots[n] # Nil /\ Canon(roots, roots[n]) = n THEN h[roots[n]] ELSE EmptyMap]

\* NewLoadMap(): a reference no field or variable holds
NewRef(m, c, hd) ==
    CHOOSE r \in Refs : \A i \in 1..(NumWorkers + 2) : Roots(m, c, hd)[i] # r

Stored(field) == IF field = "maxLoad" THEN maxLoad ELSE criticalLoad
FieldOf(op) == IF op \in {"ReadMaxLoad", "GetMaxLoad"} THEN "maxLoad" ELSE "criticalLoad"

\* ---------------------------------------- ReadMaxLoad / ReadCriticalLoad
\* ParseLoadMap runs before the mutex is taken; on a parse error the call returns at once
ReadLoadError(w, op) ==
    /\ pc[w] = "idle"
    /\ \E p \in ParseResults : p.err
    /\ last' = [op |-> op, err |-> TRUE]
    /\ UNCHANGED <<fieldVars, pc, local, throttleMutex, throttleVars, settingVars, loadVars, configVars, timeVars>>

\* the parsed map is a new object; then this.throttleMutex.Lock()
ReadLoadLock(w, op) ==
    /\ pc[w] = "idle"
    /\ MutexLock(throttleMutex, w)
    /\ throttleMutex' = w
    /\ \E p \in ParseResults :
          /\ ~p.err
          /\ LET hd == [held EXCEPT ![w] = Nil]
                 r == NewRef(maxLoad, criticalLoad, hd)
             IN  Relocate(maxLoad, criticalLoad, [hd EXCEPT ![w] = r], [heap EXCEPT ![r] = p.loadMap])
          /\ local' = [local EXCEPT ![w] = [op |-> op, parsed |-> p.loadMap]]
    /\ pc' = [pc EXCEPT ![w] = "ReadLoad:store"]
    /\ UNCHANGED <<fieldVars, last, throttleVars, settingVars, committed, configVars, timeVars>>

\* a variant that adds the parsed entries to the stored map instead of replacing it
ReadLoadStoreMerging(w, op) ==
    /\ pc[w] = "ReadLoad:store" /\ local[w].op = op
    /\ heap' = [heap EXCEPT ![Stored(FieldOf(op))] =
                   [k \in DOMAIN heap[Stored(FieldOf(op))] \cup DOMAIN heap[held[w]] |->
                       IF k \in DOMAIN heap[held[w]]
                       THEN heap[held[w]][k] ELSE heap[Stored(FieldOf(op))][k]]]
    /\ pc' = [pc EXCEPT ![w] = "ReadLoad:unlock"]
    /\ UNCHANGED <<fieldVars, local, last, throttleMutex, throttleVars, settingVars, maxLoad, criticalLoad, held, committed, configVars, timeVars>>

\* this.maxLoad = loadMap: the field now refers to the parsed map
ReadLoadStore(w, op) ==
    /\ pc[w] = "ReadLoad:store" /\ local[w].op = op
    /\ Relocate(IF FieldOf(op) = "maxLoad" THEN held[w] ELSE maxLoad,
                IF FieldOf(op) = "criticalLoad" THEN held[w] ELSE criticalLoad,
                held, heap)
    /\ pc' = [pc EXCEPT ![w] = "ReadLoad:unlock"]
    /\ UNCHANGED <<fieldVars, local, last, throttleMutex, throttleVars, settingVars, committed, configVars, timeVars>>

\* return nil, and the deferred Unlock
ReadLoadUnlock(w, op) ==
    /\ pc[w] = "ReadLoad:unlock" /\ local[w].op = op
    /\ throttleMutex' = MutexUnlock(throttleMutex, w)
    /\ committed' = [committed EXCEPT ![FieldOf(op)] = local[w].parsed]
    /\ last' = [op |-> op, err |-> FALSE]
    /\ Relocate(maxLoad, criticalLoad, [held EXCEPT ![w] = Nil], heap)
    /\ pc' = [pc EXCEPT ![w] = "idle"]
    /\ local' = [local EXCEPT ![w] = NoLocal]
    /\ UNCHANGED <<fieldVars, throttleVars, settingVars, configVars, timeVars>>

ReadLoad(w, op) ==
    \/ ReadLoadError(w, op)
    \/ ReadLoadLock(w, op)
    \/ ReadLoadStore(w, op)
    \/ ReadLoadUnlock(w, op)

ReadMaxLoad(w) == ReadLoad(w, "ReadMaxLoad")
ReadCriticalLoad(w) == ReadLoad(w, "ReadCriticalLoad")

\* ------------------------------------------ GetMaxLoad / GetCriticalLoad
GetLoadLock(w, op) ==
    /\ pc[w] = "idle"
    /\ MutexLock(throttleMutex, w)
    /\ throttleMutex' = w
    /\ Relocate(maxLoad, criticalLoad, [held EXCEPT ![w] = Nil], heap)
    /\ local' = [local EXCEPT ![w] = [op |-> op]]
    /\ pc' = [pc EXCEPT ![w] = "GetLoad:duplicate"]
    /\ UNCHANGED <<fieldVars, last, throttleVars, settingVars, committed, configVars, timeVars>>

\* a variant that returns the stored map itself
GetLoadDuplicateAliasing(w, op) ==
    /\ pc[w] = "GetLoad:duplicate" /\ local[w].op = op
    /\ Relocate(maxLoad, criticalLoad, [held EXCEPT ![w] = Stored(FieldOf(op))], heap)
    /\ pc' = [pc EXCEPT ![w] = "GetLoad:unlock"]
    /\ UNCHANGED <<fieldVars, local, last, throttleMutex, throttleVars, settingVars, committed, configVars, timeVars>>

\* Duplicate(): a new map with the entries of the stored one
GetLoadDuplicate(w, op) ==
    /\ pc[w] = "GetLoad:duplicate" /\ local[w].op = op
    /\ LET r == NewRef(maxLoad, criticalLoad, held)
       IN  Relocate(maxLoad, criticalLoad, [held EXCEPT ![w] = r],
                    [heap EXCEPT ![r] = heap[Stored(FieldOf(op))]])
    /\ pc' = [pc EXCEPT ![w] = "GetLoad:unlock"]
    /\ UNCHANGED <<fieldVars, local, last, throttleMutex, throttleVars, settingVars, committed, configVars, timeVars>>

\* the deferred Unlock; the caller now has the map
GetLoadUnlock(w, op) ==
    /\ pc[w] = "GetLoad:unlock" /\ local[w].op = op
    /\ throttleMutex' = MutexUnlock(throttleMutex, w)
    /\ last' = [op |-> op]
    /\ pc' = [pc EXCEPT ![w] = "idle"]
    /\ local' = [local EXCEPT ![w] = NoLocal]
    /\ UNCHANGED <<fieldVars, throttleVars, settingVars, loadVars, configVars, timeVars>>

GetLoad(w, op) ==
    \/ GetLoadLock(w, op)
    \/ GetLoadDuplicate(w, op)
    \/ GetLoadUnlock(w, op)

GetMaxLoad(w) == GetLoad(w, "GetMaxLoad")
GetCriticalLoad(w) == GetLoad(w, "GetCriticalLoad")

\* The caller of a getter adds, changes and removes entries of the map it got,
\* and is then done with it.
CallerNames == {<<"a">>, <<"z">>}
CallerValues == {0}
CallerMaps == UNION {[names -> CallerValues] : names \in SUBSET CallerNames}

MutateReturned(w) ==
    /\ pc[w] = "idle"
    /\ held[w] # Nil
    /\ \E m \in CallerMaps :
          /\ m # heap[held[w]]
          /\ Relocate(maxLoad, criticalLoad, [held EXCEPT ![w] = Nil], [heap EXCEPT ![held[w]] = m])
    /\ last' = [op |-> "MutateReturned"]
    /\ UNCHANGED <<fieldVars, pc, local, throttleMutex, throttleVars, settingVars, committed, configVars, timeVars>>


\* ------------------------------------------------------- ReadConfigFile
\* Strings of the config file and of the environment are sequences of characters.
\* The client section of a config file is a sequence of lines: a user or a
\* password setting, or a line the parser rejects.
ConfigValues == {<<>>, <<"c">>, <<"$", "{", "E", "}">>}
ConfigLines ==
    {[key |-> k, value |-> v] : k \in {"user", "password"}, v \in ConfigValues}
    \cup {[key |-> "corrupt", value |-> <<>>]}
MaxLines == 2
ConfigFiles == UNION {[1..n -> ConfigLines] : n \in 0..MaxLines}
\* the environment: the value of the variable E, empty when unset
EnvValues == {<<>>, <<"e">>}

\* gcfg.ReadFileInto(&this.config, file): the settings are stored into the
\* config as the lines are read, up to the first line that fails
RECURSIVE ReadFileInto(_, _, _)
ReadFileInto(cfg, file, i) ==
    IF i > Len(file) THEN [err |-> FALSE, config |-> cfg]
    ELSE IF file[i].key = "corrupt" THEN [err |-> TRUE, config |-> cfg]
    ELSE IF file[i].key = "user"
         THEN ReadFileInto([cfg EXCEPT !.User = file[i].value], file, i + 1)
         ELSE ReadFileInto([cfg EXCEPT !.Password = file[i].value], file, i + 1)

\* envVariableRegexp.FindStringSubmatch(value): the leftmost "${", then as
\* much as possible up to a "}"; <<>> when there is no match, else <<match, group>>
FindStringSubmatch(value) ==
    LET starts == {i \in 1..(Len(value) - 1) :
                      /\ value[i] = "$" /\ value[i + 1] = "{"
                      /\ \E j \in (i + 2)..Len(value) : value[j] = "}"}
    IN  IF starts = {} THEN <<>>
        ELSE LET i == CHOOSE x \in starts : \A y \in starts : x <= y
                 j == CHOOSE x \in (i + 2)..Len(value) :
                         value[x] = "}" /\ \A y \in (x + 1)..Len(value) : value[y] # "}"
             IN  <<SubSeq(value, i, j), SubSeq(value, i + 2, j - 1)>>

Getenv(env, name) == IF name = <<"E">> THEN env ELSE <<>>

Resolve(env, value) ==
    LET submatch == FindStringSubmatch(value)
    IN  IF Len(submatch) > 1 THEN Getenv(env, submatch[2]) ELSE value

\* the body of ReadConfigFile, for a ConfigFile path ("" when none is given),
\* whether a file is found there, its lines, and the environment
\* unset: a user or password of the form ${NAME} was replaced by an empty variable
ReadConfigFileBody(cfg, path, exists, file, env) ==
    IF path = "" THEN [err |-> FALSE, config |-> cfg, unset |-> FALSE]
    ELSE IF ~exists THEN [err |-> TRUE, config |-> cfg, unset |-> FALSE]
    ELSE LET read == ReadFileInto(cfg, file, 1)
         IN  IF read.err THEN [err |-> TRUE, config |-> read.config, unset |-> FALSE]
             ELSE [err |-> FALSE,
                   config |-> [User |-> Resolve(env, read.config.User),
                               Password |-> Resolve(env, read.config.Password)],
                   unset |-> \E value \in {read.config.User, read.config.Password} :
                                /\ Len(FindStringSubmatch(value)) > 1
                                /\ Resolve(env, value) = <<>>]

ReadConfigFileResults(cfg) ==
    {ReadConfigFileBody(cfg, "", FALSE, <<>>, <<>>), ReadConfigFileBody(cfg, "gh-ost.cnf", FALSE, <<>>, <<>>)}
    \cup {ReadConfigFileBody(cfg, "gh-ost.cnf", TRUE, file, env) : file \in ConfigFiles, env \in EnvValues}

ReadConfigFileLock(w) ==
    /\ pc[w] = "idle"
    /\ MutexLock(configMutex, w)
    /\ configMutex' = w
    /\ local' = [local EXCEPT ![w] = [op |-> "ReadConfigFile"]]
    /\ pc' = [pc EXCEPT ![w] = "ReadConfigFile:read"]
    /\ UNCHANGED <<fieldVars, last, throttleMutex, throttleVars, settingVars, loadVars,
                   config, CliUser, CliPassword, InspectorConnectionConfig, applied, timeVars>>

\* the body run on one file and environment, r being what it gives
ReadConfigFileReadOf(w, r) ==
    /\ pc[w] = "ReadConfigFile:read"
    /\ config' = r.config
    /\ local' = [local EXCEPT ![w] = [op |-> "ReadConfigFile", err |-> r.err, unset |-> r.unset,
                                       before |-> config]]
    /\ applied' = (IF config' = config THEN applied ELSE [calls |-> "none"])
    /\ pc' = [pc EXCEPT ![w] = "ReadConfigFile:unlock"]
    /\ UNCHANGED <<fieldVars, last, throttleMutex, throttleVars, settingVars, loadVars,
                   configMutex, CliUser, CliPassword, InspectorConnectionConfig, timeVars>>

ReadConfigFileRead(w) ==
    /\ pc[w] = "ReadConfigFile:read"
    /\ \E r \in ReadConfigFileResults(config) : ReadConfigFileReadOf(w, r)

\* a variant whose error return leaves the mutex locked
ReadConfigFileUnlockOnSuccess(w) ==
    /\ pc[w] = "ReadConfigFile:unlock"
    /\ configMutex' = (IF local[w].err THEN configMutex ELSE MutexUnlock(configMutex, w))
    /\ last' = [op |-> "ReadConfigFile", err |-> local[w].err]
    /\ pc' = [pc EXCEPT ![w] = "idle"]
    /\ local' = [local EXCEPT ![w] = NoLocal]
    /\ UNCHANGED <<fieldVars, throttleMutex, throttleVars, settingVars, loadVars,
                   config, CliUser, CliPassword, InspectorConnectionConfig, applied, timeVars>>

ReadConfigFileUnlock(w) ==
    /\ pc[w] = "ReadConfigFile:unlock"
    /\ configMutex' = MutexUnlock(configMutex, w)
    /\ last' = [op |-> "ReadConfigFile", err |-> local[w].err]
    /\ pc' = [pc EXCEPT ![w] = "idle"]
    /\ local' = [local EXCEPT ![w] = NoLocal]
    /\ UNCHANGED <<fieldVars, throttleMutex, throttleVars, settingVars, loadVars,
                   config, CliUser, CliPassword, InspectorConnectionConfig, applied, timeVars>>

ReadConfigFile(w) ==
    \/ ReadConfigFileLock(w)
    \/ ReadConfigFileRead(w)
    \/ ReadConfigFileUnlock(w)

\* ------------------------------------------------------ ApplyCredentials
\* a variant that lets the config file override the command line
ApplyCredentialsBodyConfigWins(conn, cfg, cliUser, cliPassword) ==
    LET user == IF cfg.User # <<>> THEN cfg.User ELSE IF cliUser # <<>> THEN cliUser ELSE conn.User
        password == IF cfg.Password # <<>> THEN cfg.Password
                    ELSE IF cliPassword # <<>> THEN cliPassword ELSE conn.Password
    IN  [User |-> user, Password |-> password]

\* a variant that takes the password from the connection's user of before the call
ApplyCredentialsBodyStale(conn, cfg, cliUser, cliPassword) ==
    LET user1 == IF cfg.User # <<>> THEN cfg.User ELSE conn.User
        user2 == IF cliUser # <<>> THEN cliUser ELSE user1
        password1 == IF cfg.Password # <<>> THEN cfg.Password ELSE conn.User
        password2 == IF cliPassword # <<>> THEN cliPassword ELSE password1
    IN  [User |-> user2, Password |-> password2]

\* the four assignments, in the order of the code
ApplyCredentialsBody(conn, cfg, cliUser, cliPassword) ==
    LET user1 == IF cfg.User # <<>> THEN cfg.User ELSE conn.User
        user2 == IF cliUser # <<>> THEN cliUser ELSE user1
        password1 == IF cfg.Password # <<>> THEN cfg.Password ELSE conn.Password
        password2 == IF cliPassword # <<>> THEN cliPassword ELSE password1
    IN  [User |-> user2, Password |-> password2]

ApplyCredentialsLock(w) ==
    /\ pc[w] = "idle"
    /\ MutexLock(configMutex, w)
    /\ configMutex' = w
    /\ local' = [local EXCEPT ![w] = [op |-> "ApplyCredentials"]]
    /\ pc' = [pc EXCEPT ![w] = "ApplyCredentials:apply"]
    /\ UNCHANGED <<fieldVars, last, throttleMutex, throttleVars, settingVars, loadVars,
                   config, CliUser, CliPassword, InspectorConnectionConfig, applied, timeVars>>

ApplyCredentialsApply(w) ==
    /\ pc[w] = "ApplyCredentials:apply"
    /\ InspectorConnectionConfig' =
          ApplyCredentialsBody(InspectorConnectionConfig, config, CliUser, CliPassword)
    /\ applied' = (IF applied.calls = "none"
                   THEN [calls |-> "one", result |-> InspectorConnectionConfig']
                   ELSE [calls |-> "several", result |-> applied.result])
    /\ pc' = [pc EXCEPT ![w] = "ApplyCredentials:unlock"]
    /\ UNCHANGED <<fieldVars, local, last, throttleMutex, throttleVars, settingVars, loadVars,
                   configMutex, config, CliUser, CliPassword, timeVars>>

ApplyCredentialsUnlock(w) ==
    /\ pc[w] = "ApplyCredentials:unlock"
    /\ configMutex' = MutexUnlock(configMutex, w)
    /\ last' = [op |-> "ApplyCredentials"]
    /\ pc' = [pc EXCEPT ![w] = "idle"]
    /\ local' = [local EXCEPT ![w] = NoLocal]
    /\ UNCHANGED <<fieldVars, throttleMutex, throttleVars, settingVars, loadVars,
                   config, CliUser, CliPassword, InspectorConnectionConfig, applied, timeVars>>

ApplyCredentials(w) ==
    \/ ApplyCredentialsLock(w)
    \/ ApplyCredentialsApply(w)
    \/ ApplyCredentialsUnlock(w)

\* the command line sets the exported fields CliUser and CliPassword
CliValues == {<<>>, <<"x">>}
SetCliCredentials ==
    /\ \E user \in CliValues, password \in CliValues :
          /\ <<user, password>> # <<CliUser, CliPassword>>
          /\ CliUser' = user
          /\ CliPassword' = password
    /\ applied' = [calls |-> "none"]
    /\ UNCHANGED <<fieldVars, ctlVars, throttleMutex, throttleVars, settingVars, loadVars,
                   configMutex, config, InspectorConnectionConfig, timeVars>>

\* ------------------------------------------------------- row copy times
\* time.Time is a number of clock ticks; the zero Time is before every time.Now()
ZeroTime == 0

Tick ==
    /\ now < MaxTime
    /\ now' = now + 1
    /\ UNCHANGED <<fieldVars, ctlVars, throttleMutex, throttleVars, settingVars, loadVars, configVars,
                   RowCopyStartTime, RowCopyEndTime, marks, elapsed>>

MarkRowCopyStartTimeLock(w) ==
    /\ pc[w] = "idle"
    /\ MutexLock(throttleMutex, w)
    /\ throttleMutex' = w
    /\ local' = [local EXCEPT ![w] = [op |-> "MarkRowCopyStartTime"]]
    /\ pc' = [pc EXCEPT ![w] = "MarkRowCopyStartTime:store"]
    /\ UNCHANGED <<fieldVars, last, throttleVars, settingVars, loadVars, configVars, timeVars>>

MarkRowCopyStartTimeStore(w) ==
    /\ pc[w] = "MarkRowCopyStartTime:store"
    /\ RowCopyStartTime' = now
    /\ marks' = (IF marks = "none" THEN "start" ELSE "other")
    /\ pc' = [pc EXCEPT ![w] = "MarkRowCopyStartTime:unlock"]
    /\ UNCHANGED <<fieldVars, local, last, throttleMutex, throttleVars, settingVars, loadVars, configVars,
                   now, RowCopyEndTime, elapsed>>

MarkRowCopyStartTimeUnlock(w) ==
    /\ pc[w] = "MarkRowCopyStartTime:unlock"
    /\ throttleMutex' = MutexUnlock(throttleMutex, w)
    /\ last' = [op |-> "MarkRowCopyStartTime"]
    /\ pc' = [pc EXCEPT ![w] = "idle"]
    /\ local' = [local EXCEPT ![w] = NoLocal]
    /\ UNCHANGED <<fieldVars, throttleVars, settingVars, loadVars, configVars, timeVars>>

MarkRowCopyStartTime(w) ==
    \/ MarkRowCopyStartTimeLock(w)
    \/ MarkRowCopyStartTimeStore(w)
    \/ MarkRowCopyStartTimeUnlock(w)

MarkRowCopyEndTimeLock(w) ==
    /\ pc[w] = "idle"
    /\ MutexLock(throttleMutex, w)
    /\ throttleMutex' = w
    /\ local' = [local EXCEPT ![w] = [op |-> "MarkRowCopyEndTime"]]
    /\ pc' = [pc EXCEPT ![w] = "MarkRowCopyEndTime:store"]
    /\ UNCHANGED <<fieldVars, last, throttleVars, settingVars, loadVars, configVars, timeVars>>

MarkRowCopyEndTimeStore(w) ==
    /\ pc[w] = "MarkRowCopyEndTime:store"
    /\ RowCopyEndTime' = now
    /\ marks' = (IF marks = "start" THEN "start,end" ELSE "other")
    /\ pc' = [pc EXCEPT ![w] = "MarkRowCopyEndTime:unlock"]
    /\ UNCHANGED <<fieldVars, local, last, throttleMutex, throttleVars, settingVars, loadVars, configVars,
                   now, RowCopyStartTime, elapsed>>

MarkRowCopyEndTimeUnlock(w) ==
    /\ pc[w] = "MarkRowCopyEndTime:unlock"
    /\ throttleMutex' = MutexUnlock(throttleMutex, w)
    /\ last' = [op |-> "MarkRowCopyEndTime"]
    /\ pc' = [pc EXCEPT ![w] = "idle"]
    /\ local' = [local EXCEPT ![w] = NoLocal]
    /\ UNCHANGED <<fieldVars, throttleVars, settingVars, loadVars, configVars, timeVars>>

MarkRowCopyEndTime(w) ==
    \/ MarkRowCopyEndTimeLock(w)
    \/ MarkRowCopyEndTimeStore(w)
    \/ MarkRowCopyEndTimeUnlock(w)

IsZero(t) == t = ZeroTime

\* a variant that forgets the end mark
ElapsedRowCopyTimeBodyRunning(start, end, clock) ==
    IF IsZero(start) THEN 0
    ELSE clock - start

ElapsedRowCopyTimeBody(start, end, clock) ==
    IF IsZero(start) THEN 0
    ELSE IF IsZero(end) THEN clock - start
    ELSE end - start

ElapsedRowCopyTimeLock(w) ==
    /\ pc[w] = "idle"
    /\ MutexLock(throttleMutex, w)
    /\ throttleMutex' = w
    /\ local' = [local EXCEPT ![w] = [op |-> "ElapsedRowCopyTime"]]
    /\ pc' = [pc EXCEPT ![w] = "ElapsedRowCopyTime:read"]
    /\ UNCHANGED <<fieldVars, last, throttleVars, settingVars, loadVars, configVars, timeVars>>

ElapsedRowCopyTimeRead(w) ==
    /\ pc[w] = "ElapsedRowCopyTime:read"
    /\ local' = [local EXCEPT ![w] =
                    [op |-> "ElapsedRowCopyTime", at |-> now,
                     result |-> ElapsedRowCopyTimeBody(RowCopyStartTime, RowCopyEndTime, now)]]
    /\ pc' = [pc EXCEPT ![w] = "ElapsedRowCopyTime:unlock"]
    /\ UNCHANGED <<fieldVars, last, throttleMutex, throttleVars, settingVars, loadVars, configVars, timeVars>>

ElapsedRowCopyTimeUnlock(w) ==
    /\ pc[w] = "ElapsedRowCopyTime:unlock"
    /\ throttleMutex' = MutexUnlock(throttleMutex, w)
    /\ elapsed' = [marks |-> marks, result |-> local[w].result]
    /\ last' = [op |-> "ElapsedRowCopyTime"]
    /\ pc' = [pc EXCEPT ![w] = "idle"]
    /\ local' = [local EXCEPT ![w] = NoLocal]
    /\ UNCHANGED <<fieldVars, throttleVars, settingVars, loadVars, configVars,
                   now, RowCopyStartTime, RowCopyEndTime, marks>>

ElapsedRowCopyTime(w) ==
    \/ ElapsedRowCopyTimeLock(w)
    \/ ElapsedRowCopyTimeRead(w)
    \/ ElapsedRowCopyTimeUnlock(w)

\* ------------------------------------------------------- specifications
\* newMigrationContext()
\* ------------------------------------------ SetChunkSize and lag threshold
\* The arguments tried: both sides of every threshold the code compares with.
ChunkSizeValues == {-1, 99, 100, 1000, 100000, 100001}
LagValues == {-1, 999, 1000, 1500, 100001}

\* a variant that clamps from below only
SetChunkSizeNoUpperClamp(w) ==
    /\ pc[w] = "idle"
    /\ \E chunkSize \in ChunkSizeValues :
          /\ ChunkSize' = IF chunkSize < 100 THEN 100 ELSE chunkSize
          /\ last' = [op |-> "SetChunkSize", chunkSize |-> chunkSize]
    /\ UNCHANGED <<pc, local, throttleMutex, throttleVars, settingVars, loadVars, configVars, timeVars,
                   MaxLagMillisecondsThrottleThreshold, nameVars, rangeVars, queryVars, poiVars>>

\* The argument is a local copy; the only shared access is the atomic store.
SetChunkSize(w) ==
    /\ pc[w] = "idle"
    /\ \E chunkSize \in ChunkSizeValues :
          LET atLeast == IF chunkSize < 100 THEN 100 ELSE chunkSize
              atMost == IF atLeast > 100000 THEN 100000 ELSE atLeast
          IN  /\ ChunkSize' = atMost
              /\ last' = [op |-> "SetChunkSize", chunkSize |-> chunkSize]
    /\ UNCHANGED <<pc, local, throttleMutex, throttleVars, settingVars, loadVars, configVars, timeVars,
                   MaxLagMillisecondsThrottleThreshold, nameVars, rangeVars, queryVars, poiVars>>

\* a variant that also clamps from above, the way SetChunkSize does
SetMaxLagMillisecondsThrottleThresholdClamped(w) ==
    /\ pc[w] = "idle"
    /\ \E maxLagMillisecondsThrottleThreshold \in LagValues :
          /\ MaxLagMillisecondsThrottleThreshold' =
                IF maxLagMillisecondsThrottleThreshold < 1000 THEN 1000
                ELSE IF maxLagMillisecondsThrottleThreshold > 100000 THEN 100000
                ELSE maxLagMillisecondsThrottleThreshold
          /\ last' = [op |-> "SetMaxLagMillisecondsThrottleThreshold", by |-> w,
                      maxLagMillisecondsThrottleThreshold |-> maxLagMillisecondsThrottleThreshold]
    /\ UNCHANGED <<pc, local, throttleMutex, throttleVars, settingVars, loadVars, configVars, timeVars,
                   ChunkSize, nameVars, rangeVars, queryVars, poiVars>>

\* No Lock: the store is atomic.StoreInt64, made without this.throttleMutex.
SetMaxLagMillisecondsThrottleThreshold(w) ==
    /\ pc[w] = "idle"
    /\ \E maxLagMillisecondsThrottleThreshold \in LagValues :
          /\ MaxLagMillisecondsThrottleThreshold' =
                IF maxLagMillisecondsThrottleThreshold < 1000 THEN 1000
                ELSE maxLagMillisecondsThrottleThreshold
          /\ last' = [op |-> "SetMaxLagMillisecondsThrottleThreshold", by |-> w,
                      maxLagMillisecondsThrottleThreshold |-> maxLagMillisecondsThrottleThreshold]
    /\ UNCHANGED <<pc, local, throttleMutex, throttleVars, settingVars, loadVars, configVars, timeVars,
                   ChunkSize, nameVars, rangeVars, queryVars, poiVars>>

\* --------------------------------------------------- derived table names
\* Strings are sequences of characters, fmt.Sprintf concatenates them.
OriginalTableNames == {<<>>, <<"t">>, <<"u">>}
MigrateTableNames ==
    {<<>>, <<"t">>, <<"t", "2">>,
     <<"_", "t", "_", "g", "h", "o">>, <<"_", "t", "_", "d", "e", "l">>, <<"_", "t", "_", "g", "h", "c">>}

Sprintf(before, s, after) == before \o s \o after

\* The identity fields and mode flags are exported; the command line assigns
\* them.  No call has returned since, so last is reset.
AssignIdentity ==
    /\ OriginalTableName' \in OriginalTableNames
    /\ MigrateTableName' \in MigrateTableNames
    /\ Migrate' \in BOOLEAN
    /\ TestOnReplica' \in BOOLEAN
    /\ MigrateOnReplica' \in BOOLEAN
    /\ last' = [op |-> "none"]
    /\ UNCHANGED <<pc, local, throttleMutex, throttleVars, settingVars, loadVars, configVars, timeVars,
                   atomicVars, rangeVars, queryVars, poiVars>>

\* a variant that uses the migrate-table name whenever one is given
GetGhostTableNameBodyUnflagged(migrate, migrateTableName, originalTableName) ==
    IF migrateTableName # <<>>
    THEN migrateTableName
    ELSE Sprintf(<<"_">>, originalTableName, <<"_", "g", "h", "o">>)

GetGhostTableNameBody(migrate, migrateTableName, originalTableName) ==
    IF migrate
    THEN migrateTableName
    ELSE Sprintf(<<"_">>, originalTableName, <<"_", "g", "h", "o">>)

\* a variant that tests the two flags in the other order
GetOldTableNameBodyReordered(testOnReplica, migrateOnReplica, originalTableName) ==
    IF migrateOnReplica THEN Sprintf(<<"_">>, originalTableName, <<"_", "g", "h", "r">>)
    ELSE IF testOnReplica THEN Sprintf(<<"_">>, originalTableName, <<"_", "g", "h", "t">>)
    ELSE Sprintf(<<"_">>, originalTableName, <<"_", "d", "e", "l">>)

GetOldTableNameBody(testOnReplica, migrateOnReplica, originalTableName) ==
    IF testOnReplica THEN Sprintf(<<"_">>, originalTableName, <<"_", "g", "h", "t">>)
    ELSE IF migrateOnReplica THEN Sprintf(<<"_">>, originalTableName, <<"_", "g", "h", "r">>)
    ELSE Sprintf(<<"_">>, originalTableName, <<"_", "d", "e", "l">>)

GetChangelogTableNameBody(originalTableName) ==
    Sprintf(<<"_">>, originalTableName, <<"_", "g", "h", "c">>)

\* The three getters read the fields without any mutex and return at once.
GetTableName(w, op, result) ==
    /\ pc[w] = "idle"
    /\ last' = [op |-> op, result |-> result]
    /\ UNCHANGED <<pc, local, throttleMutex, throttleVars, settingVars, loadVars, configVars, timeVars,
                   fieldVars>>

GetGhostTableName(w) ==
    GetTableName(w, "GetGhostTableName", GetGhostTableNameBody(Migrate, MigrateTableName, OriginalTableName))

GetOldTableName(w) ==
    GetTableName(w, "GetOldTableName", GetOldTableNameBody(TestOnReplica, MigrateOnReplica, OriginalTableName))

GetChangelogTableName(w) ==
    GetTableName(w, "GetChangelogTableName", GetChangelogTableNameBody(OriginalTableName))

\* -------------------------------------------------------- migration range
\* A *sql.ColumnValues is Nil or a reference to a value list (1: an empty
\* list, 2: a list with values).  The fields are exported; the row copier
\* assigns them.  No call has returned since, so last is reset.
ColumnValuesRefs == {Nil, 1, 2}

AssignMigrationRangeMinValues ==
    /\ MigrationRangeMinValues' \in ColumnValuesRefs
    /\ last' = [op |-> "none"]
    /\ UNCHANGED <<pc, local, throttleMutex, throttleVars, settingVars, loadVars, configVars, timeVars,
                   atomicVars, nameVars, queryVars, poiVars,
                   MigrationRangeMaxValues, MigrationIterationRangeMinValues, MigrationIterationRangeMaxValues>>

AssignMigrationRangeMaxValues ==
    /\ MigrationRangeMaxValues' \in ColumnValuesRefs
    /\ last' = [op |-> "none"]
    /\ UNCHANGED <<pc, local, throttleMutex, throttleVars, settingVars, loadVars, configVars, timeVars,
                   atomicVars, nameVars, queryVars, poiVars,
                   MigrationRangeMinValues, MigrationIterationRangeMinValues, MigrationIterationRangeMaxValues>>

AssignMigrationIterationRangeMinValues ==
    /\ MigrationIterationRangeMinValues' \in ColumnValuesRefs
    /\ last' = [op |-> "none"]
    /\ UNCHANGED <<pc, local, throttleMutex, throttleVars, settingVars, loadVars, configVars, timeVars,
                   atomicVars, nameVars, queryVars, poiVars,
                   MigrationRangeMinValues, MigrationRangeMaxValues, MigrationIterationRangeMaxValues>>

AssignMigrationIterationRangeMaxValues ==
    /\ MigrationIterationRangeMaxValues' \in ColumnValuesRefs
    /\ last' = [op |-> "none"]
    /\ UNCHANGED <<pc, local, throttleMutex, throttleVars, settingVars, loadVars, configVars, timeVars,
                   atomicVars, nameVars, queryVars, poiVars,
                   MigrationRangeMinValues, MigrationRangeMaxValues, MigrationIterationRangeMinValues>>

\* a variant that is content with one boundary
HasMigrationRangeEither(w) ==
    /\ pc[w] = "idle"
    /\ last' = [op |-> "HasMigrationRange",
                result |-> (MigrationRangeMinValues # Nil \/ MigrationRangeMaxValues # Nil)]
    /\ UNCHANGED <<pc, local, throttleMutex, throttleVars, settingVars, loadVars, configVars, timeVars,
                   fieldVars>>

HasMigrationRange(w) ==
    /\ pc[w] = "idle"
    /\ last' = [op |-> "HasMigrationRange",
                result |-> (MigrationRangeMinValues # Nil /\ MigrationRangeMaxValues # Nil)]
    /\ UNCHANGED <<pc, local, throttleMutex, throttleVars, settingVars, loadVars, configVars, timeVars,
                   fieldVars>>

\* ------------------------------- replication-lag query and throttle query
Queries == {"", "q"}
QueryOf(op) ==
    IF op \in {"GetReplicationLagQuery", "SetReplicationLagQuery"} THEN replicationLagQuery ELSE throttleQuery

\* a variant that enters without taking the mutex
SetQueryLockUnguarded(w, op) ==
    /\ pc[w] = "idle"
    /\ \E newQuery \in Queries : local' = [local EXCEPT ![w] = [op |-> op, newQuery |-> newQuery]]
    /\ pc' = [pc EXCEPT ![w] = "SetQuery:store"]
    /\ UNCHANGED <<last, throttleMutex, throttleVars, settingVars, loadVars, configVars, timeVars, fieldVars>>

SetQueryLock(w, op) ==
    /\ pc[w] = "idle"
    /\ MutexLock(throttleMutex, w)
    /\ throttleMutex' = w
    /\ \E newQuery \in Queries : local' = [local EXCEPT ![w] = [op |-> op, newQuery |-> newQuery]]
    /\ pc' = [pc EXCEPT ![w] = "SetQuery:store"]
    /\ UNCHANGED <<last, throttleVars, settingVars, loadVars, configVars, timeVars, fieldVars>>

SetQueryStore(w, op) ==
    /\ pc[w] = "SetQuery:store" /\ local[w].op = op
    /\ IF op = "SetReplicationLagQuery"
       THEN replicationLagQuery' = local[w].newQuery /\ UNCHANGED throttleQuery
       ELSE throttleQuery' = local[w].newQuery /\ UNCHANGED replicationLagQuery
    /\ pc' = [pc EXCEPT ![w] = "SetQuery:unlock"]
    /\ UNCHANGED <<local, last, throttleMutex, throttleVars, settingVars, loadVars, configVars, timeVars,
                   atomicVars, nameVars, rangeVars, niceRatio, throttleControlReplicaKeys, poiVars>>

SetQueryUnlock(w, op) ==
    /\ pc[w] = "SetQuery:unlock" /\ local[w].op = op
    /\ throttleMutex' = MutexUnlock(throttleMutex, w)
    /\ last' = [op |-> op, newQuery |-> local[w].newQuery]
    /\ pc' = [pc EXCEPT ![w] = "idle"]
    /\ local' = [local EXCEPT ![w] = NoLocal]
    /\ UNCHANGED <<throttleVars, settingVars, loadVars, configVars, timeVars, fieldVars>>

SetQuery(w, op) == SetQueryLock(w, op) \/ SetQueryStore(w, op) \/ SetQueryUnlock(w, op)
SetReplicationLagQuery(w) == SetQuery(w, "SetReplicationLagQuery")
SetThrottleQuery(w) == SetQuery(w, "SetThrottleQuery")

GetQueryLock(w, op) ==
    /\ pc[w] = "idle"
    /\ MutexLock(throttleMutex, w)
    /\ throttleMutex' = w
    /\ local' = [local EXCEPT ![w] = [op |-> op, query |-> ""]]
    /\ pc' = [pc EXCEPT ![w] = "GetQuery:read"]
    /\ UNCHANGED <<last, throttleVars, settingVars, loadVars, configVars, timeVars, fieldVars>>

GetQueryRead(w, op) ==
    /\ pc[w] = "GetQuery:read" /\ local[w].op = op
    /\ local' = [local EXCEPT ![w].query = QueryOf(op)]
    /\ pc' = [pc EXCEPT ![w] = "GetQuery:unlock"]
    /\ UNCHANGED <<last, throttleMutex, throttleVars, settingVars, loadVars, configVars, timeVars, fieldVars>>

GetQueryUnlock(w, op) ==
    /\ pc[w] = "GetQuery:unlock" /\ local[w].op = op
    /\ throttleMutex' = MutexUnlock(throttleMutex, w)
    /\ last' = [op |-> op, query |-> local[w].query]
    /\ pc' = [pc EXCEPT ![w] = "idle"]
    /\ local' = [local EXCEPT ![w] = NoLocal]
    /\ UNCHANGED <<throttleVars, settingVars, loadVars, configVars, timeVars, fieldVars>>

GetQuery(w, op) == GetQueryLock(w, op) \/ GetQueryRead(w, op) \/ GetQueryUnlock(w, op)
GetReplicationLagQuery(w) == GetQuery(w, "GetReplicationLagQuery")
GetThrottleQuery(w) == GetQuery(w, "GetThrottleQuery")

\* --------------------------------------------------------------- niceRatio
\* float64 values; the ones tried are whole numbers on both sides of 0 and 100
NiceRatios == {-1, 50, 101}

\* the clamping is done on the argument, before the mutex is taken
SetNiceRatioLock(w) ==
    /\ pc[w] = "idle"
    /\ MutexLock(throttleMutex, w)
    /\ throttleMutex' = w
    /\ \E newRatio \in NiceRatios :
          local' = [local EXCEPT ![w] = [op |-> "SetNiceRatio",
                                         newRatio |-> IF newRatio < 0 THEN 0
                                                      ELSE IF newRatio > 100 THEN 100 ELSE newRatio]]
    /\ pc' = [pc EXCEPT ![w] = "SetNiceRatio:store"]
    /\ UNCHANGED <<last, throttleVars, settingVars, loadVars, configVars, timeVars, fieldVars>>

SetNiceRatioStore(w) ==
    /\ pc[w] = "SetNiceRatio:store"
    /\ niceRatio' = local[w].newRatio
    /\ pc' = [pc EXCEPT ![w] = "SetNiceRatio:unlock"]
    /\ UNCHANGED <<local, last, throttleMutex, throttleVars, settingVars, loadVars, configVars, timeVars,
                   atomicVars, nameVars, rangeVars, replicationLagQuery, throttleQuery, throttleControlReplicaKeys, poiVars>>

SetNiceRatioUnlock(w) ==
    /\ pc[w] = "SetNiceRatio:unlock"
    /\ throttleMutex' = MutexUnlock(throttleMutex, w)
    /\ last' = [op |-> "SetNiceRatio", newRatio |-> local[w].newRatio]
    /\ pc' = [pc EXCEPT ![w] = "idle"]
    /\ local' = [local EXCEPT ![w] = NoLocal]
    /\ UNCHANGED <<throttleVars, settingVars, loadVars, configVars, timeVars, fieldVars>>

SetNiceRatio(w) == SetNiceRatioLock(w) \/ SetNiceRatioStore(w) \/ SetNiceRatioUnlock(w)

GetNiceRatioLock(w) ==
    /\ pc[w] = "idle"
    /\ MutexLock(throttleMutex, w)
    /\ throttleMutex' = w
    /\ local' = [local EXCEPT ![w] = [op |-> "GetNiceRatio", result |-> 0]]
    /\ pc' = [pc EXCEPT ![w] = "GetNiceRatio:read"]
    /\ UNCHANGED <<last, throttleVars, settingVars, loadVars, configVars, timeVars, fieldVars>>

GetNiceRatioRead(w) ==
    /\ pc[w] = "GetNiceRatio:read"
    /\ local' = [local EXCEPT ![w].result = niceRatio]
    /\ pc' = [pc EXCEPT ![w] = "GetNiceRatio:unlock"]
    /\ UNCHANGED <<last, throttleMutex, throttleVars, settingVars, loadVars, configVars, timeVars, fieldVars>>

GetNiceRatioUnlock(w) ==
    /\ pc[w] = "GetNiceRatio:unlock"
    /\ throttleMutex' = MutexUnlock(throttleMutex, w)
    /\ last' = [op |-> "GetNiceRatio", result |-> local[w].result]
    /\ pc' = [pc EXCEPT ![w] = "idle"]
    /\ local' = [local EXCEPT ![w] = NoLocal]
    /\ UNCHANGED <<throttleVars, settingVars, loadVars, configVars, timeVars, fieldVars>>

GetNiceRatio(w) == GetNiceRatioLock(w) \/ GetNiceRatioRead(w) \/ GetNiceRatioUnlock(w)

\* ---------------------------------------------- throttle control replicas
\* A *mysql.InstanceKeyMap is a set of instance keys.  A replica list either
\* fails to parse or gives the set of keys it names.
InstanceKeys == {"h1", "h2"}
ReplicaLists == [err : {TRUE}, keys : {{}}] \cup [err : {FALSE}, keys : SUBSET InstanceKeys]

\* ReadCommaDelimitedList works on a new map, before the mutex is taken
ReadThrottleControlReplicaKeysError(w) ==
    /\ pc[w] = "idle"
    /\ \E p \in ReplicaLists : p.err
    /\ last' = [op |-> "ReadThrottleControlReplicaKeys", err |-> TRUE]
    /\ UNCHANGED <<pc, local, throttleMutex, throttleVars, settingVars, loadVars, configVars, timeVars,
                   fieldVars>>

ReadThrottleControlReplicaKeysLock(w) ==
    /\ pc[w] = "idle"
    /\ MutexLock(throttleMutex, w)
    /\ throttleMutex' = w
    /\ \E p \in ReplicaLists :
          /\ ~p.err
          /\ local' = [local EXCEPT ![w] = [op |-> "ReadThrottleControlReplicaKeys", keys |-> p.keys]]
    /\ pc' = [pc EXCEPT ![w] = "ReadThrottleControlReplicaKeys:store"]
    /\ UNCHANGED <<last, throttleVars, settingVars, loadVars, configVars, timeVars,
                   fieldVars>>

ReadThrottleControlReplicaKeysStore(w) ==
    /\ pc[w] = "ReadThrottleControlReplicaKeys:store"
    /\ throttleControlReplicaKeys' = local[w].keys
    /\ pc' = [pc EXCEPT ![w] = "ReadThrottleControlReplicaKeys:unlock"]
    /\ UNCHANGED <<local, last, throttleMutex, throttleVars, settingVars, loadVars, configVars, timeVars,
                   atomicVars, nameVars, rangeVars, replicationLagQuery, throttleQuery, niceRatio, poiVars>>

ReadThrottleControlReplicaKeysUnlock(w) ==
    /\ pc[w] = "ReadThrottleControlReplicaKeys:unlock"
    /\ throttleMutex' = MutexUnlock(throttleMutex, w)
    /\ last' = [op |-> "ReadThrottleControlReplicaKeys", err |-> FALSE]
    /\ pc' = [pc EXCEPT ![w] = "idle"]
    /\ local' = [local EXCEPT ![w] = NoLocal]
    /\ UNCHANGED <<throttleVars, settingVars, loadVars, configVars, timeVars,
                   fieldVars>>

ReadThrottleControlReplicaKeys(w) ==
    \/ ReadThrottleControlReplicaKeysError(w)
    \/ ReadThrottleControlReplicaKeysLock(w)
    \/ ReadThrottleControlReplicaKeysStore(w)
    \/ ReadThrottleControlReplicaKeysUnlock(w)

AddThrottleControlReplicaKeyLock(w) ==
    /\ pc[w] = "idle"
    /\ MutexLock(throttleMutex, w)
    /\ throttleMutex' = w
    /\ \E key \in InstanceKeys :
          local' = [local EXCEPT ![w] = [op |-> "AddThrottleControlReplicaKey", key |-> key]]
    /\ pc' = [pc EXCEPT ![w] = "AddThrottleControlReplicaKey:add"]
    /\ UNCHANGED <<last, throttleVars, settingVars, loadVars, configVars, timeVars,
                   fieldVars>>

AddThrottleControlReplicaKeyAdd(w) ==
    /\ pc[w] = "AddThrottleControlReplicaKey:add"
    /\ throttleControlReplicaKeys' = throttleControlReplicaKeys \cup {local[w].key}
    /\ pc' = [pc EXCEPT ![w] = "AddThrottleControlReplicaKey:unlock"]
    /\ UNCHANGED <<local, last, throttleMutex, throttleVars, settingVars, loadVars, configVars, timeVars,
                   atomicVars, nameVars, rangeVars, replicationLagQuery, throttleQuery, niceRatio, poiVars>>

AddThrottleControlReplicaKeyUnlock(w) ==
    /\ pc[w] = "AddThrottleControlReplicaKey:unlock"
    /\ throttleMutex' = MutexUnlock(throttleMutex, w)
    /\ last' = [op |-> "AddThrottleControlReplicaKey", err |-> FALSE]
    /\ pc' = [pc EXCEPT ![w] = "idle"]
    /\ local' = [local EXCEPT ![w] = NoLocal]
    /\ UNCHANGED <<throttleVars, settingVars, loadVars, configVars, timeVars,
                   fieldVars>>

AddThrottleControlReplicaKey(w) ==
    \/ AddThrottleControlReplicaKeyLock(w)
    \/ AddThrottleControlReplicaKeyAdd(w)
    \/ AddThrottleControlReplicaKeyUnlock(w)

GetThrottleControlReplicaKeysLock(w) ==
    /\ pc[w] = "idle"
    /\ MutexLock(throttleMutex, w)
    /\ throttleMutex' = w
    /\ local' = [local EXCEPT ![w] = [op |-> "GetThrottleControlReplicaKeys", keys |-> {}]]
    /\ pc' = [pc EXCEPT ![w] = "GetThrottleControlReplicaKeys:copy"]
    /\ UNCHANGED <<last, throttleVars, settingVars, loadVars, configVars, timeVars,
                   fieldVars>>

\* keys.AddKeys(this.throttleControlReplicaKeys.GetInstanceKeys())
GetThrottleControlReplicaKeysCopy(w) ==
    /\ pc[w] = "GetThrottleControlReplicaKeys:copy"
    /\ local' = [local EXCEPT ![w].keys = local[w].keys \cup throttleControlReplicaKeys]
    /\ pc' = [pc EXCEPT ![w] = "GetThrottleControlReplicaKeys:unlock"]
    /\ UNCHANGED <<last, throttleMutex, throttleVars, settingVars, loadVars, configVars, timeVars,
                   fieldVars>>

GetThrottleControlReplicaKeysUnlock(w) ==
    /\ pc[w] = "GetThrottleControlReplicaKeys:unlock"
    /\ throttleMutex' = MutexUnlock(throttleMutex, w)
    /\ last' = [op |-> "GetThrottleControlReplicaKeys", keys |-> local[w].keys]
    /\ pc' = [pc EXCEPT ![w] = "idle"]
    /\ local' = [local EXCEPT ![w] = NoLocal]
    /\ UNCHANGED <<throttleVars, settingVars, loadVars, configVars, timeVars,
                   fieldVars>>

GetThrottleControlReplicaKeys(w) ==
    \/ GetThrottleControlReplicaKeysLock(w)
    \/ GetThrottleControlReplicaKeysCopy(w)
    \/ GetThrottleControlReplicaKeysUnlock(w)

\* ------------------------------------------------------- point of interest
MarkPointOfInterestLock(w) ==
    /\ pc[w] = "idle"
    /\ MutexLock(pointOfInterestTimeMutex, w)
    /\ pointOfInterestTimeMutex' = w
    /\ local' = [local EXCEPT ![w] = [op |-> "MarkPointOfInterest", result |-> 0]]
    /\ pc' = [pc EXCEPT ![w] = "MarkPointOfInterest:store"]
    /\ UNCHANGED <<last, throttleMutex, throttleVars, settingVars, loadVars, configVars, timeVars,
                   atomicVars, nameVars, rangeVars, queryVars, pointOfInterestTime, Iteration>>

MarkPointOfInterestStore(w) ==
    /\ pc[w] = "MarkPointOfInterest:store"
    /\ pointOfInterestTime' = now
    /\ pc' = [pc EXCEPT ![w] = "MarkPointOfInterest:load"]
    /\ UNCHANGED <<local, last, throttleMutex, throttleVars, settingVars, loadVars, configVars, timeVars,
                   atomicVars, nameVars, rangeVars, queryVars, pointOfInterestTimeMutex, Iteration>>

\* return atomic.LoadInt64(&this.Iteration)
MarkPointOfInterestLoad(w) ==
    /\ pc[w] = "MarkPointOfInterest:load"
    /\ local' = [local EXCEPT ![w].result = Iteration]
    /\ pc' = [pc EXCEPT ![w] = "MarkPointOfInterest:unlock"]
    /\ UNCHANGED <<last, throttleMutex, throttleVars, settingVars, loadVars, configVars, timeVars, fieldVars>>

MarkPointOfInterestUnlock(w) ==
    /\ pc[w] = "MarkPointOfInterest:unlock"
    /\ pointOfInterestTimeMutex' = MutexUnlock(pointOfInterestTimeMutex, w)
    /\ last' = [op |-> "MarkPointOfInterest", result |-> local[w].result]
    /\ pc' = [pc EXCEPT ![w] = "idle"]
    /\ local' = [local EXCEPT ![w] = NoLocal]
    /\ UNCHANGED <<throttleMutex, throttleVars, settingVars, loadVars, configVars, timeVars,
                   atomicVars, nameVars, rangeVars, queryVars, pointOfInterestTime, Iteration>>

MarkPointOfInterest(w) ==
    \/ MarkPointOfInterestLock(w)
    \/ MarkPointOfInterestStore(w)
    \/ MarkPointOfInterestLoad(w)
    \/ MarkPointOfInterestUnlock(w)

TimeSincePointOfInterestLock(w) ==
    /\ pc[w] = "idle"
    /\ MutexLock(pointOfInterestTimeMutex, w)
    /\ pointOfInterestTimeMutex' = w
    /\ local' = [local EXCEPT ![w] = [op |-> "TimeSincePointOfInterest", result |-> 0]]
    /\ pc' = [pc EXCEPT ![w] = "TimeSincePointOfInterest:read"]
    /\ UNCHANGED <<last, throttleMutex, throttleVars, settingVars, loadVars, configVars, timeVars,
                   atomicVars, nameVars, rangeVars, queryVars, pointOfInterestTime, Iteration>>

TimeSincePointOfInterestRead(w) ==
    /\ pc[w] = "TimeSincePointOfInterest:read"
    /\ local' = [local EXCEPT ![w].result = now - pointOfInterestTime]
    /\ pc' = [pc EXCEPT ![w] = "TimeSincePointOfInterest:unlock"]
    /\ UNCHANGED <<last, throttleMutex, throttleVars, settingVars, loadVars, configVars, timeVars, fieldVars>>

TimeSincePointOfInterestUnlock(w) ==
    /\ pc[w] = "TimeSincePointOfInterest:unlock"
    /\ pointOfInterestTimeMutex' = MutexUnlock(pointOfInterestTimeMutex, w)
    /\ last' = [op |-> "TimeSincePointOfInterest", result |-> local[w].result]
    /\ pc' = [pc EXCEPT ![w] = "idle"]
    /\ local' = [local EXCEPT ![w] = NoLocal]
    /\ UNCHANGED <<throttleMutex, throttleVars, settingVars, loadVars, configVars, timeVars,
                   atomicVars, nameVars, rangeVars, queryVars, pointOfInterestTime, Iteration>>

TimeSincePointOfInterest(w) ==
    \/ TimeSincePointOfInterestLock(w)
    \/ TimeSincePointOfInterestRead(w)
    \/ TimeSincePointOfInterestUnlock(w)

Init ==
    /\ pc = [w \in Workers |-> "idle"]
    /\ local = [w \in Workers |-> NoLocal]
    /\ last = [op |-> "none"]
    /\ throttleMutex = NoWorker
    /\ isThrottled = FALSE
    /\ throttleReason = ""
    /\ lastSet = <<FALSE, "">>
    /\ CutOverLockTimeoutSeconds = 3
    /\ defaultNumRetries = 60
    /\ maxLoad = 1
    /\ criticalLoad = 2
    /\ heap = [r \in Refs |-> EmptyMap]
    /\ held = [w \in Workers |-> Nil]
    /\ committed = [maxLoad |-> EmptyMap, criticalLoad |-> EmptyMap]
    /\ configMutex = NoWorker
    /\ config = [User |-> <<>>, Password |-> <<>>]
    /\ CliUser = <<>>
    /\ CliPassword = <<>>
    /\ InspectorConnectionConfig = [User |-> <<>>, Password |-> <<>>]
    /\ applied = [calls |-> "none"]
    /\ now = 1
    /\ RowCopyStartTime = ZeroTime
    /\ RowCopyEndTime = ZeroTime
    /\ marks = "none"
    /\ elapsed = [marks |-> "none", result |-> 0]
    /\ ChunkSize = 1000
    /\ MaxLagMillisecondsThrottleThreshold = 1500
    /\ OriginalTableName = <<>>
    /\ MigrateTableName = <<>>
    /\ Migrate = FALSE
    /\ TestOnReplica = FALSE
    /\ MigrateOnReplica = FALSE
    /\ MigrationRangeMinValues = Nil
    /\ MigrationRangeMaxValues = Nil
    /\ MigrationIterationRangeMinValues = Nil
    /\ MigrationIterationRangeMaxValues = Nil
    /\ replicationLagQuery = ""
    /\ throttleQuery = ""
    /\ niceRatio = 0
    /\ throttleControlReplicaKeys = {}
    /\ pointOfInterestTimeMutex = NoWorker
    /\ pointOfInterestTime = ZeroTime
    /\ Iteration = 0

NextThrottle == \E w \in Workers : SetThrottled(w) \/ IsThrottled(w)
SpecThrottle == Init /\ [][NextThrottle]_vars

NextSettings ==
    \E w \in Workers : SetCutOverLockTimeoutSeconds(w) \/ SetDefaultNumRetries(w) \/ MaxRetries(w)
SpecSettings == Init /\ [][NextSettings]_vars

\* the setters that take no mutex
NextClamp ==
    \E w \in Workers :
        \/ SetChunkSize(w) \/ SetMaxLagMillisecondsThrottleThreshold(w)
        \/ SetCutOverLockTimeoutSeconds(w)
SpecClamp == Init /\ [][NextClamp]_vars

NextBounded ==
    \E w \in Workers :
        \/ SetChunkSize(w) \/ SetMaxLagMillisecondsThrottleThreshold(w)
        \/ SetCutOverLockTimeoutSeconds(w) \/ SetDefaultNumRetries(w)
SpecBounded == Init /\ [][NextBounded]_vars

NextNames ==
    \/ \E w \in Workers : GetGhostTableName(w) \/ GetOldTableName(w) \/ GetChangelogTableName(w)
    \/ AssignIdentity
SpecNames == Init /\ [][NextNames]_vars

NextRange ==
    \/ \E w \in Workers : HasMigrationRange(w)
    \/ AssignMigrationRangeMinValues \/ AssignMigrationRangeMaxValues
    \/ AssignMigrationIterationRangeMinValues \/ AssignMigrationIterationRangeMaxValues
SpecRange == Init /\ [][NextRange]_vars

\* the scalar throttling settings; SpecThrottle has the flag and the reason,
\* SpecLoad the two load maps
NextThrottleState ==
    \E w \in Workers :
        \/ SetMaxLagMillisecondsThrottleThreshold(w)
        \/ SetReplicationLagQuery(w) \/ GetReplicationLagQuery(w)
        \/ SetThrottleQuery(w) \/ GetThrottleQuery(w)
        \/ SetNiceRatio(w) \/ GetNiceRatio(w)
        \/ ReadThrottleControlReplicaKeys(w) \/ AddThrottleControlReplicaKey(w)
        \/ GetThrottleControlReplicaKeys(w)
SpecThrottleState == Init /\ [][NextThrottleState]_vars

NextLoad ==
    \E w \in Workers :
        \/ ReadMaxLoad(w) \/ ReadCriticalLoad(w)
        \/ GetMaxLoad(w) \/ GetCriticalLoad(w)
        \/ MutateReturned(w)
SpecLoad == Init /\ [][NextLoad]_vars

NextConfig ==
    \/ \E w \in Workers : ReadConfigFile(w) \/ ApplyCredentials(w)
    \/ SetCliCredentials
SpecConfig == Init /\ [][NextConfig]_vars

NextTime ==
    \/ \E w \in Workers : MarkRowCopyStartTime(w) \/ MarkRowCopyEndTime(w) \/ ElapsedRowCopyTime(w)
    \/ Tick
SpecTime == Init /\ [][NextTime]_vars

\* Operations of each of the three mutexes together.  Here a call is a step of its
\* own: Call(w, op) leaves worker w in the Lock() of op, local[w].op naming
\* the call, until the mutex is free and the operation's first step is taken.
LockedOps == {"MaxRetries", "ReadConfigFile", "MarkPointOfInterest", "TimeSincePointOfInterest"}

Call(w, op) ==
    /\ pc[w] = "idle"
    /\ local[w] = NoLocal
    /\ local' = [local EXCEPT ![w] = [op |-> op]]
    /\ UNCHANGED <<pc, last, throttleMutex, throttleVars, settingVars, loadVars, configVars, timeVars,
                   fieldVars>>

\* Worker w goes on with the operation it has called.  The config files read
\* here are those that leave the config as it is (none configured, a missing
\* one, one that is corrupt from its first line, one that repeats the
\* config), so that the outcomes are both the error and the nil return.
Step(w) ==
    \/ local[w].op = "MaxRetries" /\ MaxRetries(w)
    \/ local[w].op = "ReadConfigFile" /\ ReadConfigFile(w) /\ config' = config
    \/ local[w].op = "MarkPointOfInterest" /\ MarkPointOfInterest(w)
    \/ local[w].op = "TimeSincePointOfInterest" /\ TimeSincePointOfInterest(w)

NextLocks ==
    \E w \in Workers :
        \/ \E op \in LockedOps : Call(w, op)
        \/ Step(w)

\* The scheduler runs every worker that can take a step, and sync.Mutex
\* hands a mutex that is free again and again to each worker in its Lock():
\* strong fairness of the steps of every worker.  Progress(w) is Step(w)
\* with one outcome of the step that reads the config file, the one with no
\* file configured; that step can be taken whenever the read can.
Progress(w) ==
    \/ local[w].op = "MaxRetries" /\ MaxRetries(w)
    \/ local[w].op = "ReadConfigFile" /\ ReadConfigFileLock(w)
    \/ ReadConfigFileReadOf(w, ReadConfigFileBody(config, "", FALSE, <<>>, <<>>))
    \/ ReadConfigFileUnlock(w)
    \/ local[w].op = "MarkPointOfInterest" /\ MarkPointOfInterest(w)
    \/ local[w].op = "TimeSincePointOfInterest" /\ TimeSincePointOfInterest(w)

SpecLocks == Init /\ [][NextLocks]_vars /\ \A w \in Workers : SF_vars(Progress(w))

Next ==
    \/ NextThrottle \/ NextSettings \/ NextClamp \/ NextBounded \/ NextNames \/ NextRange
    \/ NextThrottleState \/ NextLoad \/ NextConfig \/ NextTime \/ NextLocks
Spec == Init /\ [][Next]_vars

\* C1: every IsThrottled() returns the (flag, reason) pair of the single
\* SetThrottled call that completed most recently, or the initial pair
\* (false, ""); the pair is never torn between two calls.
IsThrottledPairNotTorn ==
    last.op = "IsThrottled" => <<last.flag, last.reason>> = lastSet

IsThrottledPairNotTornWitness ==
    /\ last.op = "IsThrottled"
    /\ last.flag = TRUE
    /\ last.reason = "load"
    /\ \E w \in Workers : pc[w] = "SetThrottled:lock" /\ local[w].reason = "lag"

\* C2: SetCutOverLockTimeoutSeconds(v) returns no error and stores v when
\* 1 <= v <= 10; otherwise it returns an error and the stored timeout is the
\* one from before the call.
IsSetCutOverLockTimeoutSecondsStep ==
    /\ last'.op = "SetCutOverLockTimeoutSeconds"
    /\ pc' = pc

CutOverLockTimeoutValidated ==
    [][IsSetCutOverLockTimeoutSecondsStep =>
          IF 1 <= last'.timeoutSeconds /\ last'.timeoutSeconds <= 10
          THEN ~last'.err /\ CutOverLockTimeoutSeconds' = last'.timeoutSeconds
          ELSE last'.err /\ CutOverLockTimeoutSeconds' = CutOverLockTimeoutSeconds]_vars

CutOverLockTimeoutValidatedWitness ==
    /\ last.op = "SetCutOverLockTimeoutSeconds"
    /\ last.timeoutSeconds = 11
    /\ last.err
    /\ CutOverLockTimeoutSeconds = 10

\* C3: a ReadMaxLoad / ReadCriticalLoad whose parse fails returns an error and
\* leaves both stored maps as they were; one whose parse succeeds leaves the
\* targeted field with exactly the parsed entries; and a getter returns a
\* complete map some successful read stored (or the initial empty one), never
\* a mixture of two.
IsFailedReadLoadStep ==
    /\ last'.op \in {"ReadMaxLoad", "ReadCriticalLoad"}
    /\ last'.err
    /\ pc' = pc

LoadMapReplacedAsAWhole ==
    /\ [](\A w \in Workers :
            /\ pc[w] = "ReadLoad:unlock" =>
                  heap[Stored(FieldOf(local[w].op))] = local[w].parsed
            /\ pc[w] = "GetLoad:unlock" =>
                  heap[held[w]] = committed[FieldOf(local[w].op)])
    /\ [][IsFailedReadLoadStep =>
             /\ heap'[maxLoad'] = heap[maxLoad]
             /\ heap'[criticalLoad'] = heap[criticalLoad]]_vars

LoadMapReplacedAsAWholeWitness ==
    /\ last.op = "ReadMaxLoad"
    /\ last.err
    /\ DOMAIN heap[maxLoad] = {<<"a">>, <<"b">>}
    /\ heap[criticalLoad] # EmptyMap
    /\ \E w \in Workers :
          /\ pc[w] = "ReadLoad:unlock"
          /\ local[w].op = "ReadCriticalLoad"
          /\ local[w].parsed = Put(EmptyMap, <<"a">>, 12)

\* C4: the getters return copies: whatever callers do to the maps they got,
\* the stored maps hold what the last successful ReadMaxLoad / ReadCriticalLoad
\* stored (or nothing, initially), and that is what a getter returns.
GettersReturnCopies ==
    /\ throttleMutex = NoWorker =>
          /\ heap[maxLoad] = committed.maxLoad
          /\ heap[criticalLoad] = committed.criticalLoad
    /\ \A w \in Workers :
          /\ (pc[w] \in {"idle", "GetLoad:unlock"} /\ held[w] # Nil) =>
                held[w] \notin {maxLoad, criticalLoad}
          /\ pc[w] = "GetLoad:unlock" =>
                heap[held[w]] = heap[Stored(FieldOf(local[w].op))]

GettersReturnCopiesWitness ==
    /\ last.op = "MutateReturned"
    /\ committed.maxLoad # EmptyMap
    /\ \E w \in Workers :
          /\ pc[w] = "GetLoad:unlock"
          /\ local[w].op = "GetMaxLoad"
          /\ heap[held[w]] = committed.maxLoad

\* C5: going back to Running clears the reason: after SetThrottled(false, r),
\* for any r, IsThrottled() returns (false, ""), and whenever the flag is false
\* (no call being in its critical section) the stored reason is empty.
ReasonClearedWhenRunning ==
    /\ (last.op = "IsThrottled" /\ last.flag = FALSE) => last.reason = ""
    /\ (throttleMutex = NoWorker /\ ~isThrottled) => throttleReason = ""

\* C6: SetDefaultNumRetries(v) stores v when v > 0, so that MaxRetries()
\* returns it; for v <= 0 it hands an error result to its caller and leaves
\* the stored count as it was.
DefaultNumRetriesRejectsWithError ==
    /\ (last.op = "SetDefaultNumRetries" /\ last.retries <= 0) => last.result = "error"
    /\ \A w \in Workers :
          /\ pc[w] = "SetDefaultNumRetries:unlock" =>
                defaultNumRetries = (IF local[w].retries > 0 THEN local[w].retries ELSE local[w].before)
          /\ pc[w] = "MaxRetries:unlock" => local[w].retries = defaultNumRetries

\* C7: ReadConfigFile is all-or-nothing: when it returns an error the stored
\* config is what it was before the call, and it does return an error when a
\* user or password of the form ${NAME} names an empty environment variable.
ReadConfigFileAllOrNothing ==
    \A w \in Workers :
        pc[w] = "ReadConfigFile:unlock" =>
            /\ local[w].err => config = local[w].before
            /\ local[w].unset => local[w].err

\* C8: after ApplyCredentials each of the inspector's user and password is the
\* command-line value if that is not empty, else the config-file value if that
\* is not empty, else what it was before the call; each field by its own inputs.
IsApplyCredentialsStep ==
    \E w \in Workers : pc[w] = "ApplyCredentials:apply" /\ pc'[w] = "ApplyCredentials:unlock"

Precedence(cli, cfg, before) ==
    IF cli # <<>> THEN cli ELSE IF cfg # <<>> THEN cfg ELSE before

ApplyCredentialsPrecedence ==
    [][IsApplyCredentialsStep =>
          /\ InspectorConnectionConfig'.User =
                Precedence(CliUser, config.User, InspectorConnectionConfig.User)
          /\ InspectorConnectionConfig'.Password =
                Precedence(CliPassword, config.Password, InspectorConnectionConfig.Password)]_vars

ApplyCredentialsPrecedenceWitness ==
    /\ \E w \in Workers : pc[w] = "ApplyCredentials:unlock"
    /\ CliUser = <<"x">> /\ config.User = <<"c">>
    /\ InspectorConnectionConfig.User = <<"x">>
    /\ CliPassword = <<>> /\ config.Password = <<"e">>
    /\ InspectorConnectionConfig.Password = <<"e">>

\* C9: ApplyCredentials is idempotent: while the config-file and command-line
\* values stay the same, a second and any further call leaves the inspector's
\* user and password as the first call left them.
ApplyCredentialsIdempotent ==
    applied.calls = "several" => InspectorConnectionConfig = applied.result

ApplyCredentialsIdempotentWitness ==
    /\ applied.calls = "several"
    /\ last.op = "ApplyCredentials"
    /\ InspectorConnectionConfig.User = <<"c">>
    /\ InspectorConnectionConfig.Password = <<"x">>
    /\ CliPassword = <<>>

\* C10: over the marks of a row copy (one start mark, then one end mark) with
\* a clock that never goes back, ElapsedRowCopyTime returns zero before the
\* start mark; between the marks it returns now minus start, never less than
\* the read before; after the end mark every read returns end minus start.
ElapsedRowCopyTimeByPhase ==
    \A w \in Workers :
        pc[w] = "ElapsedRowCopyTime:unlock" =>
            /\ marks = "none" => local[w].result = 0
            /\ marks = "start" =>
                  /\ local[w].result = local[w].at - RowCopyStartTime
                  /\ elapsed.marks = "start" => local[w].result >= elapsed.result
            /\ marks = "start,end" =>
                  /\ local[w].result = RowCopyEndTime - RowCopyStartTime
                  /\ elapsed.marks = "start,end" => local[w].result = elapsed.result

ElapsedRowCopyTimeByPhaseWitness ==
    /\ marks = "start,end"
    /\ elapsed.marks = "start,end"
    /\ now > RowCopyEndTime
    /\ RowCopyEndTime > RowCopyStartTime
    /\ \E w \in Workers : pc[w] = "ElapsedRowCopyTime:unlock" /\ local[w].at > RowCopyEndTime

Min(a, b) == IF a < b THEN a ELSE b
Max(a, b) == IF a > b THEN a ELSE b

\* C11: SetChunkSize(v) never fails and leaves the stored chunk size equal to
\* max(100, min(100000, v)), for every v: negative values and values above
\* 100000 included.  (The call has no error result; the state right after
\* it is the one in which it is the call that returned last.)
ChunkSizeClamped ==
    last.op = "SetChunkSize" => ChunkSize = Max(100, Min(100000, last.chunkSize))

ChunkSizeClampedWitness ==
    /\ last.op = "SetChunkSize"
    /\ last.chunkSize > 100000
    /\ ChunkSize = 100000

\* C12: the derived table names are collision-resistant: for every original
\* table name, migrate-table name and combination of the mode flags, the
\* ghost, old and changelog table names each differ from the original table
\* name and from one another.
DerivedNamesDistinct ==
    LET ghost == GetGhostTableNameBody(Migrate, MigrateTableName, OriginalTableName)
        old == GetOldTableNameBody(TestOnReplica, MigrateOnReplica, OriginalTableName)
        changelog == GetChangelogTableNameBody(OriginalTableName)
    IN  last.op \in {"GetGhostTableName", "GetOldTableName", "GetChangelogTableName"} =>
           /\ last.result # OriginalTableName
           /\ Cardinality({ghost, old, changelog, OriginalTableName}) = 4

\* C13: GetOldTableName() for original table T returns _T_ght when
\* TestOnReplica is true, _T_ghr when MigrateOnReplica is true and
\* TestOnReplica is false, and _T_del when neither is true; Migrate and
\* MigrateTableName have no influence on the result.
OldTableNameByMode ==
    last.op = "GetOldTableName" =>
        last.result = <<"_">> \o OriginalTableName \o
                      (IF TestOnReplica THEN <<"_", "g", "h", "t">>
                       ELSE IF MigrateOnReplica THEN <<"_", "g", "h", "r">>
                       ELSE <<"_", "d", "e", "l">>)

OldTableNameByModeWitness ==
    /\ last.op = "GetOldTableName"
    /\ TestOnReplica /\ MigrateOnReplica /\ Migrate
    /\ OriginalTableName = <<"t">>
    /\ MigrateTableName = <<"t", "2">>
    /\ last.result = <<"_", "t", "_", "g", "h", "t">>

\* C14: GetGhostTableName() for original table T returns _T_gho whenever
\* Migrate is false, whatever MigrateTableName holds, and MigrateTableName
\* unchanged whenever Migrate is true; TestOnReplica and MigrateOnReplica
\* have no influence on the result.
GhostTableNameByMode ==
    last.op = "GetGhostTableName" =>
        last.result = (IF Migrate THEN MigrateTableName
                       ELSE <<"_">> \o OriginalTableName \o <<"_", "g", "h", "o">>)

GhostTableNameByModeWitness ==
    /\ last.op = "GetGhostTableName"
    /\ ~Migrate /\ TestOnReplica
    /\ OriginalTableName = <<"t">>
    /\ MigrateTableName = <<"t", "2">>
    /\ last.result = <<"_", "t", "_", "g", "h", "o">>

\* C15: SetMaxLagMillisecondsThrottleThreshold(v) never fails and leaves the
\* stored lag threshold equal to max(1000, v), for every v; there is no
\* upper clamp.  (The call has no error result.)
LagThresholdClampedFromBelow ==
    last.op = "SetMaxLagMillisecondsThrottleThreshold" =>
        MaxLagMillisecondsThrottleThreshold = Max(1000, last.maxLagMillisecondsThrottleThreshold)

LagThresholdClampedFromBelowWitness ==
    /\ last.op = "SetMaxLagMillisecondsThrottleThreshold"
    /\ last.maxLagMillisecondsThrottleThreshold > 100000
    /\ MaxLagMillisecondsThrottleThreshold = last.maxLagMillisecondsThrottleThreshold

\* C16: HasMigrationRange() is false on a freshly constructed context and,
\* after any sequence of assignments to the range boundaries, true exactly
\* when both MigrationRangeMinValues and MigrationRangeMaxValues are non-nil;
\* setting one of them only, or the per-iteration boundaries, leaves it false.
HasMigrationRangeIffBothSet ==
    last.op = "HasMigrationRange" =>
        last.result = (MigrationRangeMinValues # Nil /\ MigrationRangeMaxValues # Nil)

HasMigrationRangeIffBothSetWitness ==
    /\ last.op = "HasMigrationRange"
    /\ last.result = FALSE
    /\ MigrationRangeMinValues # Nil
    /\ MigrationRangeMaxValues = Nil
    /\ MigrationIterationRangeMinValues # Nil
    /\ MigrationIterationRangeMaxValues # Nil

\* The steps in which worker w reads or writes a field of the throttling
\* state.  Those made between Lock and Unlock are known by the statement the
\* worker is at; the atomic store of the lag threshold is a whole call.
ThrottleStateLabels ==
    {"SetThrottled:flag", "SetThrottled:reason", "IsThrottled:flag", "IsThrottled:reason",
     "SetQuery:store", "GetQuery:read", "SetNiceRatio:store", "GetNiceRatio:read",
     "ReadLoad:store", "GetLoad:duplicate",
     "ReadThrottleControlReplicaKeys:store", "AddThrottleControlReplicaKey:add",
     "GetThrottleControlReplicaKeys:copy"}
IsLockedAccessBy(w) == pc[w] \in ThrottleStateLabels /\ pc'[w] # pc[w]
IsLagThresholdStoreBy(w) ==
    /\ last' # last
    /\ last'.op = "SetMaxLagMillisecondsThrottleThreshold"
    /\ last'.by = w

Mutexes == <<throttleMutex, configMutex, pointOfInterestTimeMutex>>
HeldBy(w) == {i \in 1..3 : Mutexes[i] = w}
LockDomainsIndependent ==
    /\ [](\A w \in Workers :
            /\ Cardinality(HeldBy(w)) <= 1
            /\ pc[w] = "idle" => HeldBy(w) = {})
    /\ \A w \in Workers : (local[w].op # "none") ~> (local[w].op = "none")

\* a failed ReadConfigFile has returned while the two other mutexes are held
\* by other workers' calls
LockDomainsIndependentWitness ==
    /\ last = [op |-> "ReadConfigFile", err |-> TRUE]
    /\ configMutex = NoWorker
    /\ throttleMutex # NoWorker
    /\ pointOfInterestTimeMutex # NoWorker

\* C19: the bounded settings stay in range in every reachable state: from
\* the constructor defaults and after any interleaving, by any number of
\* workers, of SetChunkSize, SetCutOverLockTimeoutSeconds,
\* SetMaxLagMillisecondsThrottleThreshold and SetDefaultNumRetries with
\* arbitrary arguments, 100 <= chunk size <= 100000, 1 <= cut-over lock
\* timeout <= 10, lag threshold >= 1000 and retry count > 0.
SettingsInRange ==
    /\ 100 <= ChunkSize /\ ChunkSize <= 100000
    /\ 1 <= CutOverLockTimeoutSeconds /\ CutOverLockTimeoutSeconds <= 10
    /\ MaxLagMillisecondsThrottleThreshold >= 1000
    /\ defaultNumRetries > 0

\* every setter has been given an argument out of range, the last of them
\* is about to store
SettingsInRangeWitness ==
    /\ ChunkSize = 100000
    /\ MaxLagMillisecondsThrottleThreshold = 1000
    /\ CutOverLockTimeoutSeconds = 10
    /\ last.op = "SetCutOverLockTimeoutSeconds" /\ last.err
    /\ defaultNumRetries = 1
    /\ \E w \in Workers : pc[w] = "SetDefaultNumRetries:unlock" /\ local[w].retries <= 0

\* C20: ElapsedRowCopyTime() is never negative: with a non-decreasing clock,
\* after any sequence and interleaving of MarkRowCopyStartTime and
\* MarkRowCopyEndTime calls (an end mark before any start mark, a start mark
\* repeated after an end mark), every ElapsedRowCopyTime() result is >= 0.
ElapsedRowCopyTimeNeverNegative ==
    /\ elapsed.result >= 0
    /\ \A w \in Workers : pc[w] = "ElapsedRowCopyTime:unlock" => local[w].result >= 0

====
